---- MODULE Spec2Model ----
(***************************************************************************)
(* Service Bridge of clawmcp-gateway: docker.Manager (package docker),     *)
(* the registry of running MCP backends that the HTTP handler drives.      *)
(* Callers are concurrent request goroutines; every backend is a child     *)
(* process talking line-framed JSON-RPC over its stdin/stdout pipes, or a  *)
(* container of the docker engine.                                         *)
(***************************************************************************)
EXTENDS Integers, Sequences, FiniteSets, TLC

\* ------------------------------------------------------------------ bounds
MaxOps == 3      \* facade calls issued in one run, all callers together
MaxProcs == 2    \* child processes launched in one run
MaxNotes == 1    \* notifications of a backend waiting in its output pipe
MaxParts == 2    \* parts in which the pipe takes the buffer of one Write
MaxEnv == 2      \* bindings in the Env of one descriptor

\* ------------------------------------------------------------ configuration
Threads == {1, 2}                 \* concurrent HTTP request goroutines
Services == {"a", "b"}            \* config.MCP.Enabled: the configured names
Names == Services \cup {"x"}      \* "x" is a name the configuration lacks
Ops == {"start", "stop", "remove", "call", "list"}

\* config.MCPService.Command: "a" is launched by an explicit command, "b" has
\* an image reference only.
Command(n) == IF n = "a" THEN "uvx" ELSE ""

VARIABLES
    client,      \* Manager.client # nil (a docker client could be created)
    mu,          \* Manager.mu: 0, or the thread holding the write lock
    procMu,      \* Manager.procMu: 0, or the thread holding the write lock
    running,     \* Manager.running: name -> index into procs, 0 = no entry
    containers,  \* Manager.containers: the names with an entry
    procs,       \* every ProcessInfo created so far, with its child process
    goro,        \* the initAndServe goroutine spawned with procs[i]
    engine,      \* docker engine: state of container clawmcp-<name>
    cfgStatus,   \* config.MCP.Enabled[i].Status, the shared descriptors
    th,          \* the callers: position, operation, locals, result
    nops,        \* facade calls issued so far
    lastOk,      \* per service: what the last lifecycle call has come to
    stdin,       \* ProcessInfo.Stdin of one session, write by write
    ev,          \* one StartService building the environment of its backend
    gw           \* the Gateway of package mcp: its lock, its map, its callers

vars == <<client, mu, procMu, running, containers, procs, goro, engine,
          cfgStatus, th, nops, lastOk, stdin, ev, gw>>

\* What the Manager's own operations never touch.
side == <<stdin, ev, gw>>

\* ------------------------------------------------------------------ values
NoFrame == [id |-> 0, by |-> 0, seq |-> 0, method |-> "", isErr |-> FALSE]
NoList == [n \in Services |-> ""]
NoRes == [kind |-> "", frame |-> NoFrame, own |-> FALSE, list |-> NoList,
          eof |-> FALSE]
Res(k) == [NoRes EXCEPT !.kind = k]

\* Nobody is inside p.Stdin.Write and nothing was written to the pipe.
NoWrite == [pc |-> "idle", doc |-> 0, part |-> 0, of |-> 0]
NewStdin == [lock |-> {}, wire |-> <<>>, docs |-> 0,
             w |-> [x \in Threads \cup {0} |-> NoWrite]]

\* NewGateway(): an empty map, the lock free, no call under way.
IdleCaller == [pc |-> "idle", op |-> "", name |-> "", res |-> ""]
NewGateway == [mu |-> 0, processes |-> [n \in Services |-> FALSE],
               th |-> [t \in Threads |-> IdleCaller], ops |-> 0, cmds |-> 0]

\* No StartService is building an environment.
NoEnv == [pc |-> "idle", Command |-> "", Env |-> <<>>, os |-> "",
          env |-> {}, driver |-> "", backend |-> {}]

IdleThread == [pc |-> "idle", op |-> "", arg |-> "", seq |-> 0, p |-> 0,
               id |-> 0, dead |-> FALSE, res |-> NoRes]

\* A request document written to a child's stdin: its "id" and "method",
\* the caller that wrote it (0: initAndServe) and its place in the stream.
Request(i, m, b, s) == [id |-> i, by |-> b, seq |-> s, method |-> m]
\* The response document a child writes for request r.
Response(r, e) == [id |-> r.id, by |-> r.by, seq |-> r.seq,
                   method |-> r.method, isErr |-> e]

\* --------------------------------------------------------------------- Init
\* NewManager: a docker client was created (client.NewClientWithOpts fails
\* only on a malformed environment), both maps are empty.
Init ==
    /\ client = TRUE
    /\ mu = 0
    /\ procMu = 0
    /\ running = [n \in Names |-> 0]
    /\ containers = {}
    /\ procs = <<>>
    /\ goro = <<>>
    /\ engine = [n \in Names |-> "none"]
    /\ cfgStatus = [n \in Services |-> ""]
    /\ th = [t \in Threads |-> IdleThread]
    /\ nops = 0
    /\ lastOk = [n \in Services |-> "none"]
    /\ stdin = NewStdin
    /\ ev = NoEnv
    /\ gw = NewGateway

\* ------------------------------------------------------------------ helpers
\* The call returns r; its locals are gone.
Return(t, r) == [th EXCEPT ![t].pc = "done", ![t].res = r, ![t].p = 0,
                           ![t].id = 0, ![t].seq = 0]
Goto(t, l) == [th EXCEPT ![t].pc = l]

\* The driver StartService picks for a descriptor.
Driver(n) ==
    IF Command(n) # "" THEN "process"
    ELSE IF client THEN "container"
    ELSE "process"

\* ConfigFound as it would be if the nil check of the descriptor were missing.
AnyNameFound(n) == TRUE

\* StartService's lookup of svcName in the configuration.
ConfigFound(n) == n \in Services

\* AlreadyRunning as it would be if the check of m.running were missing.
NeverRunning(n) == FALSE

\* StartService's "already running" check.
AlreadyRunning(n) == running[n] # 0

\* The ProcessInfo StartService registers, with the child it has launched.
NewProcess(n) ==
    [name |-> n, ID |-> 1, stdinClosed |-> FALSE, alive |-> TRUE,
     crashed |-> FALSE, waited |-> FALSE, sent |-> 0, inbox |-> {},
     out |-> <<>>]

\* The first step of a facade call.
FirstPc(o) ==
    CASE o = "start" -> "st_lock"
      [] o = "stop" -> "ss_lock"
      [] o = "remove" -> "ss_lock"
      [] o = "call" -> "ct_lookup"
      [] o = "list" -> "gs"

\* The names a facade call is issued with: StartService also with a name the
\* configuration lacks; GetServices takes none.
Args(o) ==
    CASE o = "start" -> Names
      [] o = "list" -> {"a"}
      [] OTHER -> Services

\* An HTTP request reaches the handler, which calls the Manager.
Invoke(t) ==
    /\ th[t].pc \in {"idle", "done"}
    /\ nops < MaxOps
    /\ \E o \in Ops : \E n \in Args(o) :
        /\ th' = [th EXCEPT ![t] = [IdleThread EXCEPT !.pc = FirstPc(o),
                                                      !.op = o, !.arg = n]]
        /\ lastOk' = IF o \in {"start", "stop"} /\ n \in Services
                     THEN [lastOk EXCEPT ![n] = "none"]
                     ELSE IF o = "remove"
                     THEN [lastOk EXCEPT ![n] = "removing"]
                     ELSE lastOk
    /\ nops' = nops + 1
    /\ UNCHANGED <<side, client, mu, procMu, running, containers, procs, goro,
                   engine, cfgStatus>>

\* ------------------------------------------------------------ StartService
SetLastOk(n, v) == IF n \in Services THEN [lastOk EXCEPT ![n] = v] ELSE lastOk

\* m.mu.Lock(), then the lookup of svcName in the configuration.
StartService_lock(t) ==
    /\ th[t].pc = "st_lock"
    /\ mu = 0
    /\ IF ConfigFound(th[t].arg)
       THEN /\ mu' = t
            /\ th' = Goto(t, "st_check")
       ELSE /\ mu' = 0
            /\ th' = Return(t, Res("ConfigMissing"))
    /\ UNCHANGED <<side, client, procMu, running, containers, procs, goro, engine,
                   cfgStatus, nops, lastOk>>

\* startDockerContainer: reuse, start or create container clawmcp-<name>.
\* Any call to the engine may fail.
startDockerContainer(t, n) ==
    \E listOk \in BOOLEAN, createOk \in BOOLEAN, startOk \in BOOLEAN :
        /\ IF ~listOk
           THEN /\ engine' = engine
                /\ th' = Return(t, Res("DockerError"))
                /\ lastOk' = SetLastOk(n, "none")
           ELSE IF engine[n] = "running"
           THEN /\ engine' = engine
                /\ th' = Return(t, Res("ok"))
                /\ lastOk' = SetLastOk(n, "started")
           ELSE IF engine[n] = "none" /\ ~createOk
           THEN /\ engine' = engine
                /\ th' = Return(t, Res("LaunchFailed"))
                /\ lastOk' = SetLastOk(n, "none")
           ELSE IF startOk
           THEN /\ engine' = [engine EXCEPT ![n] = "running"]
                /\ th' = Return(t, Res("ok"))
                /\ lastOk' = SetLastOk(n, "started")
           ELSE /\ engine' = [engine EXCEPT ![n] =
                                IF @ = "none" THEN "created" ELSE @]
                /\ th' = Return(t, Res("LaunchFailed"))
                /\ lastOk' = SetLastOk(n, "none")

\* The pipes are created and cmd.Start() runs (either may fail); then
\* m.running[svcName] = &ProcessInfo{...} under procMu.Lock() and
\* go m.initAndServe(...).
launchProcess(t, n) ==
    \E ok \in BOOLEAN :
        /\ IF ok /\ Len(procs) < MaxProcs
           THEN /\ procs' = Append(procs, NewProcess(n))
                /\ running' = [running EXCEPT ![n] = Len(procs) + 1]
                /\ goro' = Append(goro, [pc |-> "init", p |-> 0])
                /\ th' = Return(t, Res("ok"))
                /\ lastOk' = SetLastOk(n, "started")
           ELSE /\ th' = Return(t, Res("LaunchFailed"))
                /\ lastOk' = SetLastOk(n, "none")
                /\ UNCHANGED <<procs, running, goro>>
        /\ UNCHANGED <<engine>>

\* With m.mu held: the check of m.running under procMu.RLock(), the launch
\* and the registration; the deferred m.mu.Unlock() on every return.
StartService_check(t) ==
    /\ th[t].pc = "st_check"
    /\ procMu = 0
    /\ LET n == th[t].arg IN
        IF AlreadyRunning(n)
        THEN /\ th' = Return(t, Res("ok"))
             /\ lastOk' = SetLastOk(n, "started")
             /\ UNCHANGED <<procs, running, goro, engine>>
        ELSE IF Driver(n) = "container"
        THEN /\ startDockerContainer(t, n)
             /\ UNCHANGED <<procs, running, goro>>
        ELSE launchProcess(t, n)
    /\ mu' = 0
    /\ UNCHANGED <<side, client, procMu, containers, cfgStatus, nops>>

\* ------------------------------------------------ StopService, RemoveService
\* RemoveService calls StopService first and ignores what it returns.
Finish(t, r) ==
    IF th[t].op = "remove" THEN Goto(t, "rm_docker") ELSE Return(t, r)

StopOk(t, n) ==
    IF th[t].op = "stop" THEN SetLastOk(n, "stopped") ELSE lastOk

\* ChildExited as it would be if StopService did not wait for the child.
ExitNotAwaited(i) == TRUE

\* Cmd.Wait() returns once the child has exited.
ChildExited(i) == ~procs[i].alive

\* DeleteRunning as it would be if StopService left the entry in m.running.
KeepRunning(n) == running

\* delete(m.running, svcName)
DeleteRunning(n) == [running EXCEPT ![n] = 0]

\* The container half of StopService: stop clawmcp-<name> if it is running.
stopContainer(t, n) ==
    \E listOk \in BOOLEAN, stopOk \in BOOLEAN :
        IF ~client
        THEN /\ th' = Finish(t, Res("NotFound"))
             /\ UNCHANGED <<engine, lastOk>>
        ELSE IF ~listOk
        THEN /\ th' = Finish(t, Res("DockerError"))
             /\ UNCHANGED <<engine, lastOk>>
        ELSE IF engine[n] # "running"
        THEN /\ th' = Finish(t, Res("NotFound"))
             /\ UNCHANGED <<engine, lastOk>>
        ELSE IF stopOk
        THEN /\ engine' = [engine EXCEPT ![n] = "exited"]
             /\ th' = Finish(t, Res("ok"))
             /\ lastOk' = StopOk(t, n)
        ELSE /\ th' = Finish(t, Res("DockerError"))
             /\ UNCHANGED <<engine, lastOk>>

\* m.procMu.Lock(); with an entry, p.Stdin.Close() and on to p.Cmd.Wait()
\* with the lock held; without one, unlock and try the container.
StopService_lock(t) ==
    /\ th[t].pc = "ss_lock"
    /\ procMu = 0
    /\ LET n == th[t].arg
           p == running[n] IN
        IF p # 0
        THEN /\ procMu' = t
             /\ procs' = [procs EXCEPT ![p].stdinClosed = TRUE]
             /\ th' = [th EXCEPT ![t].pc = "ss_wait", ![t].p = p]
             /\ UNCHANGED <<engine, lastOk>>
        ELSE /\ stopContainer(t, n)
             /\ UNCHANGED <<procMu, procs>>
    /\ UNCHANGED <<side, client, mu, running, containers, goro, cfgStatus, nops>>

\* StopService_wait as it would be if m.procMu.Unlock() were missing after
\* the delete.
StopService_wait_locked(t) ==
    /\ th[t].pc = "ss_wait"
    /\ ChildExited(th[t].p)
    /\ procs' = [procs EXCEPT ![th[t].p].waited = TRUE]
    /\ running' = DeleteRunning(th[t].arg)
    /\ th' = Finish(t, Res("ok"))
    /\ lastOk' = StopOk(t, th[t].arg)
    /\ UNCHANGED <<side, client, mu, procMu, containers, goro, engine,
                   cfgStatus, nops>>

\* p.Cmd.Wait() returns (and closes the parent's ends of the pipes), the
\* entry is deleted and procMu released.
StopService_wait(t) ==
    /\ th[t].pc = "ss_wait"
    /\ ChildExited(th[t].p)
    /\ procs' = [procs EXCEPT ![th[t].p].waited = TRUE]
    /\ running' = DeleteRunning(th[t].arg)
    /\ procMu' = 0
    /\ th' = Finish(t, Res("ok"))
    /\ lastOk' = StopOk(t, th[t].arg)
    /\ UNCHANGED <<side, client, mu, containers, goro, engine, cfgStatus, nops>>

\* ContainerRemove as it would be if the container were left in place.
ContainerKept(n) == engine

\* m.client.ContainerRemove(ctx, c.ID, ...) succeeding.
ContainerRemove(n) == [engine EXCEPT ![n] = "none"]

\* RemoveService after its StopService: stop and remove the container and
\* return, or fall through to the Manager's own table.
RemoveService_docker(t) ==
    /\ th[t].pc = "rm_docker"
    /\ LET n == th[t].arg IN
       \E listOk \in BOOLEAN, stopOk \in BOOLEAN, rmOk \in BOOLEAN :
        IF ~client
        THEN /\ th' = Goto(t, "rm_lock")
             /\ UNCHANGED <<engine, lastOk>>
        ELSE IF ~listOk
        THEN /\ th' = Return(t, Res("DockerError"))
             /\ engine' = engine
             /\ lastOk' = SetLastOk(n, "none")
        ELSE IF engine[n] = "none"
        THEN /\ th' = Goto(t, "rm_lock")
             /\ UNCHANGED <<engine, lastOk>>
        ELSE IF engine[n] = "running" /\ ~stopOk
        THEN /\ th' = Return(t, Res("DockerError"))
             /\ engine' = engine
             /\ lastOk' = SetLastOk(n, "none")
        ELSE IF rmOk
        THEN /\ th' = Return(t, Res("ok"))
             /\ engine' = ContainerRemove(n)
             /\ lastOk' = SetLastOk(n, "none")
        ELSE /\ th' = Return(t, Res("DockerError"))
             /\ engine' = [engine EXCEPT ![n] =
                              IF @ = "running" THEN "exited" ELSE @]
             /\ lastOk' = SetLastOk(n, "none")
    /\ UNCHANGED <<side, client, mu, procMu, running, containers, procs, goro,
                   cfgStatus, nops>>

\* m.mu.Lock(); delete(m.containers, svcName); m.mu.Unlock(); return nil
RemoveService_lock(t) ==
    /\ th[t].pc = "rm_lock"
    /\ mu = 0
    /\ containers' = containers \ {th[t].arg}
    /\ th' = Return(t, Res("ok"))
    /\ lastOk' = SetLastOk(th[t].arg, "none")
    /\ UNCHANGED <<side, client, mu, procMu, running, procs, goro, engine,
                   cfgStatus, nops>>

\* -------------------------------------------------------------- GetServices
\* The status GetServices derives from m.running.
ProcessStatus(n) == IF running[n] # 0 THEN "running" ELSE "stopped"

\* What GetServices returns: the process status, overridden by the engine's
\* State of container clawmcp-<name> when the client exists and lists.
GetServicesResult(listOk) ==
    [n \in Services |->
        IF client /\ listOk /\ engine[n] # "none"
        THEN engine[n] ELSE ProcessStatus(n)]

GetServices(t) ==
    /\ th[t].pc = "gs"
    /\ procMu = 0
    /\ cfgStatus' = [n \in Services |-> ProcessStatus(n)]
    /\ \E listOk \in BOOLEAN :
        th' = Return(t, [Res("list") EXCEPT !.list = GetServicesResult(listOk)])
    /\ UNCHANGED <<side, client, mu, procMu, running, containers, procs, goro,
                   engine, nops, lastOk>>

\* ----------------------------------------------------------------- CallTool
\* p.Stdin.Write(document + "\n"): fails on a pipe this side has closed or
\* whose reader is gone, else the child receives the document.
CanWrite(i) == ~procs[i].stdinClosed /\ procs[i].alive

Written(i, r) == [procs EXCEPT ![i].inbox = @ \cup {r}, ![i].sent = @ + 1]

\* p, ok := m.running[svcName] under procMu.RLock()
Lookup(n) == running[n]

\* Parsed as it would be if the "error" member were not looked at.
ParsedErrorIgnored(frames) ==
    IF Len(frames) = 1 /\ frames[1].method # "not JSON"
    THEN [Res("result") EXCEPT !.frame = frames[1]]
    ELSE Res("ParseError")

\* The response CallTool hands back for the bytes of one read: one document
\* parses, several documents in one buffer do not, nor does a line that is
\* no JSON document.
Parsed(frames) ==
    IF Len(frames) = 1 /\ frames[1].method # "not JSON"
    THEN [Res(IF frames[1].isErr THEN "MCPError" ELSE "result")
            EXCEPT !.frame = frames[1]]
    ELSE Res("ParseError")

\* The lookup, then "id": p.ID, read without any lock.
CallTool_lookup(t) ==
    /\ th[t].pc = "ct_lookup"
    /\ procMu = 0
    /\ LET p == Lookup(th[t].arg) IN
        IF p = 0
        THEN th' = Return(t, Res("NotRunning"))
        ELSE th' = [th EXCEPT ![t].pc = "ct_send", ![t].p = p,
                              ![t].id = procs[p].ID,
                              ![t].dead = ~procs[p].alive]
    /\ UNCHANGED <<side, client, mu, procMu, running, containers, procs, goro,
                   engine, cfgStatus, nops, lastOk>>

\* p.ID++ without any lock (the store is one more than the value this caller
\* loaded, now or with the request's id), then the write of the request.
CallTool_send(t) ==
    /\ th[t].pc = "ct_send"
    /\ LET p == th[t].p
           r == Request(th[t].id, "tools/call", t, procs[p].sent + 1) IN
       \E v \in {procs[p].ID + 1, th[t].id + 1} :
        IF CanWrite(p)
        THEN /\ procs' = [Written(p, r) EXCEPT ![p].ID = v]
             /\ th' = [th EXCEPT ![t].pc = "ct_read", ![t].seq = r.seq]
        ELSE /\ procs' = [procs EXCEPT ![p].ID = v]
             /\ th' = Return(t, Res("WriteError"))
    /\ UNCHANGED <<side, client, mu, procMu, running, containers, goro, engine,
                   cfgStatus, nops, lastOk>>

\* n, err := p.Stdout.Read(buf), then json.Unmarshal(buf[:n]): blocks while
\* the pipe is empty and open; takes whatever the pipe holds; at end of
\* stream n = 0 and io.EOF is let through to the parser.
CallTool_read(t) ==
    /\ th[t].pc = "ct_read"
    /\ LET p == th[t].p IN
        IF procs[p].waited
        THEN /\ procs' = procs
             /\ th' = Return(t, Res("ReadError"))
        ELSE IF procs[p].out # <<>>
        THEN /\ procs' = [procs EXCEPT ![p].out = <<>>]
             /\ th' = Return(t, [Parsed(procs[p].out) EXCEPT
                                    !.own = /\ Len(procs[p].out) = 1
                                            /\ procs[p].out[1].seq = th[t].seq])
        ELSE /\ ~procs[p].alive
             /\ procs' = procs
             /\ th' = Return(t, [Res("ParseError") EXCEPT !.eof = TRUE])
    /\ UNCHANGED <<side, client, mu, procMu, running, containers, goro, engine,
                   cfgStatus, nops, lastOk>>

\* ------------------------------------------------------------- initAndServe
\* p := m.running[svcName] under procMu.RLock(), return if nil; then the
\* initialize request, id 1, written with the error of the write dropped.
initAndServe_init(i) ==
    /\ goro[i].pc = "init"
    /\ procMu = 0
    /\ LET p == Lookup(procs[i].name) IN
        IF p = 0
        THEN /\ goro' = [goro EXCEPT ![i].pc = "exit"]
             /\ procs' = procs
        ELSE /\ goro' = [goro EXCEPT ![i] = [pc |-> "notif", p |-> p]]
             /\ procs' = IF CanWrite(p)
                         THEN Written(p, Request(1, "initialize", 0, procs[p].sent + 1))
                         ELSE procs
    /\ UNCHANGED <<side, client, mu, procMu, running, containers, engine,
                   cfgStatus, th, nops, lastOk>>

\* After a sleep, notifications/initialized (no id, no reply), then the
\* goroutine serves HTTP for the rest of its life.
initAndServe_notif(i) ==
    /\ goro[i].pc = "notif"
    /\ goro' = [goro EXCEPT ![i].pc = "serve"]
    /\ UNCHANGED <<side, client, mu, procMu, running, containers, procs, engine,
                   cfgStatus, th, nops, lastOk>>

\* ------------------------------------------------------------ child process
\* isError of the replies the backend may give: a tools/call gets a result
\* or an error object, the handshake is accepted.
Replies(r) == IF r.method = "tools/call" THEN BOOLEAN ELSE {FALSE}

\* The backend answers any one of the requests it has read, in any order,
\* with a result or an error object.
ChildReply(i) ==
    /\ procs[i].alive
    /\ \E r \in procs[i].inbox : \E e \in Replies(r) :
        procs' = [procs EXCEPT ![i].out = Append(@, Response(r, e)),
                               ![i].inbox = @ \ {r}]
    /\ UNCHANGED <<side, client, mu, procMu, running, containers, goro, engine,
                   cfgStatus, th, nops, lastOk>>

\* The backend dies on its own; what it had written stays in the pipe.
ChildCrash(i) ==
    /\ procs[i].alive
    /\ ~procs[i].stdinClosed
    /\ procs' = [procs EXCEPT ![i].alive = FALSE, ![i].crashed = TRUE,
                              ![i].inbox = {}]
    /\ UNCHANGED <<side, client, mu, procMu, running, containers, goro, engine,
                   cfgStatus, th, nops, lastOk>>

\* The backend sees end of input and exits.
ChildExit(i) ==
    /\ procs[i].alive
    /\ procs[i].stdinClosed
    /\ procs' = [procs EXCEPT ![i].alive = FALSE, ![i].inbox = {}]
    /\ UNCHANGED <<side, client, mu, procMu, running, containers, goro, engine,
                   cfgStatus, th, nops, lastOk>>

\* --------------------------------------------------------------------- Spec
Next ==
    \/ \E t \in Threads : Invoke(t)
    \/ \E t \in Threads : StartService_lock(t)
    \/ \E t \in Threads : StartService_check(t)
    \/ \E t \in Threads : StopService_lock(t)
    \/ \E t \in Threads : StopService_wait(t)
    \/ \E t \in Threads : RemoveService_docker(t)
    \/ \E t \in Threads : RemoveService_lock(t)
    \/ \E t \in Threads : GetServices(t)
    \/ \E t \in Threads : CallTool_lookup(t)
    \/ \E t \in Threads : CallTool_send(t)
    \/ \E t \in Threads : CallTool_read(t)
    \/ \E i \in 1..Len(goro) : initAndServe_init(i)
    \/ \E i \in 1..Len(goro) : initAndServe_notif(i)
    \/ \E i \in 1..Len(procs) : ChildReply(i)
    \/ \E i \in 1..Len(procs) : ChildCrash(i)
    \/ \E i \in 1..Len(procs) : ChildExit(i)

Spec == Init /\ [][Next]_vars

\* The step caller t can take on its own: what its goroutine runs next.
ThreadStep(t) ==
    \/ StartService_lock(t)
    \/ StartService_check(t)
    \/ StopService_lock(t)
    \/ StopService_wait(t)
    \/ RemoveService_docker(t)
    \/ RemoveService_lock(t)
    \/ GetServices(t)
    \/ CallTool_lookup(t)
    \/ CallTool_send(t)
    \/ CallTool_read(t)

\* The step of the initAndServe goroutine spawned with procs[i].
GoroStep(i) ==
    /\ i \in 1..Len(goro)
    /\ (initAndServe_init(i) \/ initAndServe_notif(i))

\* The Go scheduler runs every goroutine that can run: a request goroutine
\* or an initAndServe goroutine whose next step stays possible takes it.
\* Nothing obliges a client to send requests or a backend to answer, to
\* exit or to crash.
FairSpec ==
    /\ Spec
    /\ \A t \in Threads : WF_vars(ThreadStep(t))
    /\ \A i \in 1..(MaxProcs + 1) : WF_vars(GoroStep(i))

\* A backend that sees end of input does exit: the backends this
\* specification is about are the ones that honour the closing of their input.
ChildStep(i) ==
    /\ i \in 1..Len(procs)
    /\ ChildExit(i)

ExitSpec ==
    /\ FairSpec
    /\ \A i \in 1..(MaxProcs + 1) : WF_vars(ChildStep(i))

\* ----------------------------------------------------------------- tools
\* config.MCPService.Tools of a descriptor as the configuration file gives
\* it: the sample configurations list no tools.
ConfigTools(n) == {}

\* The tools the backend running as procs[i] declares when it is asked
\* tools/list.
DeclaredTools(i) == {"t1", "t2"}

\* The tools field of service n in the listing: the handler copies
\* svc.Tools of the descriptor GetServices returned, which no operation of
\* the Manager ever assigns.
ListedTools(n) == ConfigTools(n)

\* ------------------------------------------------------ the JSON documents
\* json.Marshal of a Go value: an int and a float64 both become a JSON
\* number.
Marshal(v) ==
    [json |-> IF v.type \in {"int", "float64"} THEN "number" ELSE v.type,
     val |-> v.val]

\* json.Unmarshal into interface{}: every JSON number becomes a float64.
Unmarshal(j) ==
    [type |-> IF j.json = "number" THEN "float64" ELSE j.json, val |-> j.val]

\* req.Arguments as the handler binds it from the body of the HTTP request
\* and passes it to CallTool; the call whose request is the s-th document
\* of the stream is given the number s, so no two calls share a value.
Arguments(s) == Unmarshal([json |-> "number", val |-> s])

\* The "arguments" that the request answered by frame f carried, in the
\* bytes of the request.
ArgumentsOf(f) == Marshal(Arguments(f.seq))

\* resp["result"] of frame f when the backend echoes the "arguments" of a
\* tools/call as its result; the result of initialize is the server's
\* description of itself.
EchoResult(f) ==
    IF f.method = "tools/call"
    THEN Unmarshal(ArgumentsOf(f))
    ELSE Unmarshal([json |-> "object", val |-> 0])

\* ------------------------------------------------- the starter's context
\* To the Manager a child killed from outside is a child that died on its
\* own: Next has both as ChildCrash. ContextSpec tells them apart.
\* The descriptors StartService launches with exec.CommandContext(ctx, ...),
\* ctx being the context of the request that started the service: those
\* with an explicit command. (The docker-run fallback uses exec.Command.)
HasContext(n) == Command(n) # ""

\* The context StartService was called with is done (the HTTP request it
\* served has completed or was cancelled) and the watcher that cmd.Start()
\* set up kills the child; Cmd.Wait() ends the watch.
ContextKill(i) ==
    /\ procs[i].alive
    /\ ~procs[i].waited
    /\ HasContext(procs[i].name)
    /\ procs' = [procs EXCEPT ![i].alive = FALSE, ![i].inbox = {}]
    /\ UNCHANGED <<side, client, mu, procMu, running, containers, goro, engine,
                   cfgStatus, th, nops, lastOk>>

ContextNext ==
    \/ Next
    \/ \E i \in 1..Len(procs) : ContextKill(i)

ContextSpec == Init /\ [][ContextNext]_vars

\* ------------------------------------------- server-initiated notifications
\* A frame the backend writes on its own: a JSON-RPC notification, which has
\* a "method" and no "id", no "result" and no "error".
Notification ==
    [id |-> 0, by |-> 0, seq |-> 0, method |-> "notifications/message",
     isErr |-> FALSE]

\* The notifications waiting in the output pipe of procs[i].
Notes(i) ==
    Cardinality({k \in 1..Len(procs[i].out) :
                    procs[i].out[k].method = Notification.method})

\* The backend writes a notification to its stdout.
ChildNotify(i) ==
    /\ procs[i].alive
    /\ Notes(i) < MaxNotes
    /\ procs' = [procs EXCEPT ![i].out = Append(@, Notification)]
    /\ UNCHANGED <<side, client, mu, procMu, running, containers, goro, engine,
                   cfgStatus, th, nops, lastOk>>

NotifyNext ==
    \/ Next
    \/ \E i \in 1..Len(procs) : ChildNotify(i)

NotifySpec == Init /\ [][NotifyNext]_vars

\* ------------------------------------------------------ unparseable output
\* A line on the backend's stdout that is no JSON document (a log line, a
\* banner): json.Unmarshal fails on it.
Unparseable ==
    [id |-> 0, by |-> 0, seq |-> 0, method |-> "not JSON", isErr |-> FALSE]

\* The unparseable lines waiting in the output pipe of procs[i].
Garbage(i) ==
    Cardinality({k \in 1..Len(procs[i].out) : procs[i].out[k] = Unparseable})

\* The backend writes such a line to its stdout.
ChildGarbage(i) ==
    /\ procs[i].alive
    /\ Garbage(i) < MaxNotes
    /\ procs' = [procs EXCEPT ![i].out = Append(@, Unparseable)]
    /\ UNCHANGED <<side, client, mu, procMu, running, containers, goro, engine,
                   cfgStatus, th, nops, lastOk>>

GarbageNext ==
    \/ Next
    \/ \E i \in 1..Len(procs) : ChildGarbage(i)

GarbageSpec == Init /\ [][GarbageNext]_vars

\* ------------------------------------------------------ no container engine
\* NewManager could not create or reach a docker client: m.client is nil.
NoEngineInit ==
    /\ client = FALSE
    /\ mu = 0
    /\ procMu = 0
    /\ running = [n \in Names |-> 0]
    /\ containers = {}
    /\ procs = <<>>
    /\ goro = <<>>
    /\ engine = [n \in Names |-> "none"]
    /\ cfgStatus = [n \in Services |-> ""]
    /\ th = [t \in Threads |-> IdleThread]
    /\ nops = 0
    /\ lastOk = [n \in Services |-> "none"]
    /\ stdin = NewStdin
    /\ ev = NoEnv
    /\ gw = NewGateway

NoEngineSpec == NoEngineInit /\ [][Next]_vars

\* ------------------------------------------------- the backend's environment
\* config.EnvVar: a literal Value, a ValueFrom reference, or both.  "V" is the
\* one variable the references name; os is what os.Getenv("V") returns, ""
\* when V is not set.
EnvVars == [Value : {"", "lit"}, ValueFrom : {"", "env:V", "secret:S"}]

Getenv(from, os) == IF from = "env:V" THEN os ELSE ""

\* StartService, lines 98-110: the literal first, the reference only when
\* there is no literal; an empty value is left out.  Entry k is the binding
\* at position k of svc.Env.
StartEnv(E, os) ==
    {[k |-> k, v |-> IF E[k].Value = "" /\ E[k].ValueFrom = "env:V"
                     THEN Getenv(E[k].ValueFrom, os) ELSE E[k].Value] :
        k \in {j \in DOMAIN E :
                 (IF E[j].Value = "" /\ E[j].ValueFrom = "env:V"
                  THEN Getenv(E[j].ValueFrom, os) ELSE E[j].Value) # ""}}

\* StartService, lines 128-137, the -e arguments of "docker run": the
\* reference whenever there is one; an empty value is left out.
FallbackEnv(E, os) ==
    {[k |-> k, v |-> IF E[k].ValueFrom = "env:V"
                     THEN Getenv(E[k].ValueFrom, os) ELSE E[k].Value] :
        k \in {j \in DOMAIN E :
                 (IF E[j].ValueFrom = "env:V"
                  THEN Getenv(E[j].ValueFrom, os) ELSE E[j].Value) # ""}}

\* startDockerContainer, lines 204-211: the reference whenever there is one;
\* every binding is passed, empty or not.
ContainerEnv(E, os) ==
    {[k |-> k, v |-> IF E[k].ValueFrom = "env:V"
                     THEN Getenv(E[k].ValueFrom, os) ELSE E[k].Value] :
        k \in DOMAIN E}

\* A StartService call is about to build the environment: any descriptor
\* with up to MaxEnv bindings, with or without a command, V set or not, an
\* engine reachable or not.
EnvInit ==
    /\ client \in BOOLEAN
    /\ mu = 0
    /\ procMu = 0
    /\ running = [n \in Names |-> 0]
    /\ containers = {}
    /\ procs = <<>>
    /\ goro = <<>>
    /\ engine = [n \in Names |-> "none"]
    /\ cfgStatus = [n \in Services |-> ""]
    /\ th = [t \in Threads |-> IdleThread]
    /\ nops = 0
    /\ lastOk = [n \in Services |-> "none"]
    /\ stdin = NewStdin
    /\ gw = NewGateway
    /\ \E c \in {"", "uvx"} : \E o \in {"", "fromenv"} :
       \E k \in 0..MaxEnv : \E E \in [1..k -> EnvVars] :
          ev = [NoEnv EXCEPT !.pc = "env", !.Command = c, !.Env = E, !.os = o]

\* env := os.Environ() and the loop over svc.Env.
StartService_env ==
    /\ ev.pc = "env"
    /\ ev' = [ev EXCEPT !.pc = "driver", !.env = StartEnv(ev.Env, ev.os)]
    /\ UNCHANGED <<stdin, gw, client, mu, procMu, running, containers, procs, goro,
                   engine, cfgStatus, th, nops, lastOk>>

\* svc.Command != "": the command runs as the child, cmd.Env = env.
StartService_command ==
    /\ ev.pc = "driver"
    /\ ev.Command # ""
    /\ ev' = [ev EXCEPT !.pc = "done", !.driver = "process",
                        !.backend = ev.env]
    /\ UNCHANGED <<stdin, gw, client, mu, procMu, running, containers, procs, goro,
                   engine, cfgStatus, th, nops, lastOk>>

\* No command and a client: startDockerContainer builds its own list for
\* container.Config.Env.
startDockerContainer_env ==
    /\ ev.pc = "driver"
    /\ ev.Command = ""
    /\ client
    /\ ev' = [ev EXCEPT !.pc = "done", !.driver = "container",
                        !.backend = ContainerEnv(ev.Env, ev.os)]
    /\ UNCHANGED <<stdin, gw, client, mu, procMu, running, containers, procs, goro,
                   engine, cfgStatus, th, nops, lastOk>>

\* No command and no client: the child is "docker run --rm -i -e ... image";
\* the backend inside gets the -e arguments, the docker child gets env.
StartService_fallback ==
    /\ ev.pc = "driver"
    /\ ev.Command = ""
    /\ ~client
    /\ ev' = [ev EXCEPT !.pc = "done", !.driver = "fallback",
                        !.backend = FallbackEnv(ev.Env, ev.os)]
    /\ UNCHANGED <<stdin, gw, client, mu, procMu, running, containers, procs, goro,
                   engine, cfgStatus, th, nops, lastOk>>

EnvNext ==
    \/ StartService_env
    \/ StartService_command
    \/ startDockerContainer_env
    \/ StartService_fallback

EnvSpec == EnvInit /\ [][EnvNext]_vars

\* ------------------------------------------------- the engine's restart policy
\* startDockerContainer creates the container with
\* HostConfig.RestartPolicy = {Name: "always"}.
RestartPolicy == "always"

\* The backend in container clawmcp-<n> exits on its own.
ContainerDie(n) ==
    /\ engine[n] = "running"
    /\ engine' = [engine EXCEPT ![n] = "died"]
    /\ UNCHANGED <<side, client, mu, procMu, running, containers, procs, goro,
                   cfgStatus, th, nops, lastOk>>

\* The engine applies the policy: a container that exited on its own is
\* started again; one stopped through the API is not.
EngineRestart(n) ==
    /\ RestartPolicy = "always"
    /\ engine[n] = "died"
    /\ engine' = [engine EXCEPT ![n] = "running"]
    /\ UNCHANGED <<side, client, mu, procMu, running, containers, procs, goro,
                   cfgStatus, th, nops, lastOk>>

RestartNext ==
    \/ Next
    \/ \E n \in Services : ContainerDie(n)
    \/ \E n \in Services : EngineRestart(n)

RestartSpec == Init /\ [][RestartNext]_vars

\* ----------------------------------------------------- Gateway (package mcp)
\* g.mu is a sync.RWMutex: gw.mu is the goroutine holding it for writing, 0
\* when nobody does.  RLock waits while a writer holds it, whoever that is.
\* Every read section of the Gateway is a lookup in the map and nothing else,
\* so it is one step.
GOps == {"StartProcess", "StopProcess", "CallTool", "ListTools"}

GFirstPc(o) ==
    CASE o = "StartProcess" -> "sp_lock"
      [] o = "StopProcess" -> "stop_lock"
      [] OTHER -> "lookup"

GReturn(t, r) == [gw EXCEPT !.th[t].pc = "done", !.th[t].res = r]

\* A caller enters one of the Gateway's methods.
Gateway_call(t) ==
    /\ gw.th[t].pc \in {"idle", "done"}
    /\ gw.ops < MaxOps
    /\ \E o \in GOps : \E n \in Services :
        gw' = [gw EXCEPT !.ops = @ + 1,
                         !.th[t] = [pc |-> GFirstPc(o), op |-> o, name |-> n,
                                    res |-> ""]]
    /\ UNCHANGED <<stdin, ev, client, mu, procMu, running, containers, procs,
                   goro, engine, cfgStatus, th, nops, lastOk>>

\* StartProcess: g.mu.Lock(), defer g.mu.Unlock(); a name in the map returns
\* nil at once.
StartProcess_lock(t) ==
    /\ gw.th[t].pc = "sp_lock"
    /\ gw.mu = 0
    /\ gw' = IF gw.processes[gw.th[t].name]
             THEN GReturn(t, "ok")
             ELSE [gw EXCEPT !.mu = t, !.th[t].pc = "sp_start"]
    /\ UNCHANGED <<stdin, ev, client, mu, procMu, running, containers, procs,
                   goro, engine, cfgStatus, th, nops, lastOk>>

\* The pipes and cmd.Start(): on failure the error is returned and the lock
\* released; on success g.processes[name] = &Process{...} and
\* g.initialize(ctx, name) is called with the lock still held.
StartProcess_start(t) ==
    /\ gw.th[t].pc = "sp_start"
    /\ \E ok \in BOOLEAN :
        IF ok /\ gw.cmds < MaxProcs
        THEN gw' = [gw EXCEPT !.processes[gw.th[t].name] = TRUE,
                              !.cmds = @ + 1,
                              !.th[t].pc = "sendRequest"]
        ELSE gw' = [GReturn(t, "LaunchFailed") EXCEPT !.mu = 0]
    /\ UNCHANGED <<stdin, ev, client, mu, procMu, running, containers, procs,
                   goro, engine, cfgStatus, th, nops, lastOk>>

\* sendRequest: g.mu.RLock(); p := g.processes[name]; g.mu.RUnlock(); then
\* the write of the request and on to readResponse.
sendRequest(t) ==
    /\ gw.th[t].pc = "sendRequest"
    /\ gw.mu = 0
    /\ gw' = [gw EXCEPT !.th[t].pc = "readResponse"]
    /\ UNCHANGED <<stdin, ev, client, mu, procMu, running, containers, procs,
                   goro, engine, cfgStatus, th, nops, lastOk>>

\* StopProcess: g.mu.Lock(), defer g.mu.Unlock(); without an entry it
\* returns nil; with one it closes stdin and waits for the child.
StopProcess_lock(t) ==
    /\ gw.th[t].pc = "stop_lock"
    /\ gw.mu = 0
    /\ gw' = IF gw.processes[gw.th[t].name]
             THEN [gw EXCEPT !.mu = t, !.th[t].pc = "stop_wait"]
             ELSE GReturn(t, "ok")
    /\ UNCHANGED <<stdin, ev, client, mu, procMu, running, containers, procs,
                   goro, engine, cfgStatus, th, nops, lastOk>>

\* CallTool and ListTools: g.mu.RLock(); p, exists := g.processes[name];
\* g.mu.RUnlock(); without an entry "process ... not running".
Gateway_lookup(t) ==
    /\ gw.th[t].pc = "lookup"
    /\ gw.mu = 0
    /\ gw' = IF gw.processes[gw.th[t].name]
             THEN [gw EXCEPT !.th[t].pc = "found"]
             ELSE GReturn(t, "NotRunning")
    /\ UNCHANGED <<stdin, ev, client, mu, procMu, running, containers, procs,
                   goro, engine, cfgStatus, th, nops, lastOk>>

\* The steps the Gateway's callers can take.  sendRequest is not among them:
\* its only caller that gets there is StartProcess, inside its own write
\* lock, where sync.RWMutex never lets RLock pass (see C37).
GatewayNext ==
    \/ \E t \in Threads : Gateway_call(t)
    \/ \E t \in Threads : StartProcess_lock(t)
    \/ \E t \in Threads : StartProcess_start(t)
    \/ \E t \in Threads : StopProcess_lock(t)
    \/ \E t \in Threads : Gateway_lookup(t)

GatewaySpec == Init /\ [][GatewayNext]_vars

\* ------------------------------------------- the bytes on a session's stdin
\* Every request reaches the backend through one call
\* p.Stdin.Write(append(data, '\n')): CallTool on the callers' goroutines,
\* initAndServe on its own.  The Manager takes no lock of its own around it.
\* p.Stdin is the *os.File of the pipe's write end (cmd.StdinPipe()): a Write
\* on it takes the file's write lock, hands the buffer to the pipe in as many
\* parts as the pipe accepts, blocking while the pipe is full, and gives the
\* lock back after the last byte.  The last part carries the '\n'.
Writers == Threads \cup {0}          \* 0 is the initAndServe goroutine

\* Another Write on the same file is not under way (stand-in: no exclusion).
WriteLockIgnored(x) == TRUE

\* Another Write on the same file is not under way.
WriteLockFree(x) == stdin.lock = {}

\* x marshals a request and calls p.Stdin.Write with the whole document; the
\* pipe will take it in n parts.
Write_call(x) ==
    /\ stdin.w[x].pc = "idle"
    /\ stdin.docs < MaxOps
    /\ \E n \in 1..MaxParts :
        stdin' = [stdin EXCEPT !.docs = @ + 1,
                               !.w[x] = [pc |-> "lock", doc |-> stdin.docs + 1,
                                         part |-> 1, of |-> n]]
    /\ UNCHANGED <<ev, gw, client, mu, procMu, running, containers, procs, goro,
                   engine, cfgStatus, th, nops, lastOk>>

\* Write enters the file's write lock.
Write_lock(x) ==
    /\ stdin.w[x].pc = "lock"
    /\ WriteLockFree(x)
    /\ stdin' = [stdin EXCEPT !.lock = {x}, !.w[x].pc = "write"]
    /\ UNCHANGED <<ev, gw, client, mu, procMu, running, containers, procs, goro,
                   engine, cfgStatus, th, nops, lastOk>>

\* The pipe takes the next part of x's buffer; after the last one Write
\* leaves the lock and returns.
Write_part(x) ==
    /\ stdin.w[x].pc = "write"
    /\ LET w == stdin.w[x]
           b == [by |-> x, doc |-> w.doc, part |-> w.part,
                 nl |-> w.part = w.of]
       IN  stdin' = [stdin EXCEPT
                        !.wire = Append(@, b),
                        !.lock = IF w.part = w.of THEN {} ELSE @,
                        !.w[x] = IF w.part = w.of THEN NoWrite
                                 ELSE [w EXCEPT !.part = @ + 1]]
    /\ UNCHANGED <<ev, gw, client, mu, procMu, running, containers, procs, goro,
                   engine, cfgStatus, th, nops, lastOk>>

WriteNext ==
    \/ \E x \in Writers : Write_call(x)
    \/ \E x \in Writers : Write_lock(x)
    \/ \E x \in Writers : Write_part(x)

WriteSpec == Init /\ [][WriteNext]_vars

\* ------------------------------------------------------------------- claims
\* The HTTP status the handler answers with for what the Manager returned:
\* 200 without an error, 500 with any error.
StatusCode(r) == IF r.kind \in {"ok", "result", "list"} THEN 200 ELSE 500

Done(t, o) == th[t].pc = "done" /\ th[t].op = o

\* The children alive that were launched for name n.
LiveChildren(n) == {i \in 1..Len(procs) : procs[i].name = n /\ procs[i].alive}

\* C1: every CallTool that returns a response frame (a result or the
\* backend's error object) returns the response to the request it wrote
\* itself, never the initialize response or another caller's response.
C1_OwnResponse ==
    \A t \in Threads :
        Done(t, "call") /\ th[t].res.kind \in {"result", "MCPError"}
            => th[t].res.own

\* C2: a StartService that finds a session with a live backend registered
\* for the name returns success, launches nothing and leaves the registry,
\* the processes and the goroutines as they were.
C2_StartIdempotent ==
    [][\A t \in Threads :
          ( /\ th[t].pc = "st_check"
            /\ th'[t].pc # "st_check"
            /\ running[th[t].arg] # 0
            /\ procs[running[th[t].arg]].alive )
          => /\ th'[t].pc = "done"
             /\ th'[t].res.kind = "ok"
             /\ procs' = procs
             /\ running' = running
             /\ goro' = goro]_vars

\* C2 witness: two StartService calls on "a" have both returned success and
\* one child process was launched, which is alive.
C2_Witness ==
    /\ \A t \in Threads :
        Done(t, "start") /\ th[t].arg = "a" /\ th[t].res.kind = "ok"
    /\ Len(procs) = 1
    /\ procs[1].alive

\* C3: at any time at most one live child process launched by the Manager
\* exists per service name, and the registry entry of a name, if any, is a
\* process launched for that name.
C3_OneSession ==
    \A n \in Names :
        /\ Cardinality(LiveChildren(n)) <= 1
        /\ running[n] # 0 => procs[running[n]].name = n

\* C3 witness: a second child has been launched for a name after the first
\* one was stopped, and is the one alive.
C3_Witness ==
    /\ Len(procs) = 2
    /\ procs[1].name = procs[2].name
    /\ procs[1].waited
    /\ procs[2].alive
    /\ running[procs[2].name] = 2

\* C4: a CallTool whose read found the backend's output at end of stream
\* returns ProcessExited.
C4_ProcessExited ==
    \A t \in Threads :
        Done(t, "call") /\ th[t].res.eof => th[t].res.kind = "ProcessExited"

\* C5: a CallTool that looks up a session whose backend is gone (its output
\* stream closed) has returned NotRunning there and then, without going on
\* to write a request.
C5_ClosedIsNotRunning ==
    \A t \in Threads :
        th[t].op = "call" /\ th[t].dead
            => th[t].pc = "done" /\ th[t].res.kind = "NotRunning"

\* C6: once StopService(name) has returned success and no StartService,
\* StopService or RemoveService of that name has been called since, a
\* CallTool(name) returns NotRunning at its lookup and writes to no child.
C6_NotRunningAfterStop ==
    [][\A t \in Threads :
          ( /\ th[t].pc = "ct_lookup"
            /\ th'[t].pc # "ct_lookup"
            /\ lastOk[th[t].arg] = "stopped" )
          => /\ th'[t].pc = "done"
             /\ th'[t].res.kind = "NotRunning"
             /\ procs' = procs]_vars

\* C6 witness: StopService("a") stopped a registered process with success
\* and a CallTool("a") after it has returned NotRunning.
C6_Witness ==
    /\ lastOk["a"] = "stopped"
    /\ \E i \in 1..Len(procs) : procs[i].name = "a" /\ procs[i].waited
    /\ \E t \in Threads :
        Done(t, "call") /\ th[t].arg = "a" /\ th[t].res.kind = "NotRunning"

\* C7: while the last lifecycle call of a service is a StartService that
\* returned success the service list reports it running, and while it is a
\* StopService that returned success the list reports it stopped (the
\* engine answering the listing).
C7_StatusFollows ==
    \A n \in Services :
        /\ lastOk[n] = "started" => GetServicesResult(TRUE)[n] = "running"
        /\ lastOk[n] = "stopped" => GetServicesResult(TRUE)[n] = "stopped"

\* C8: StartService with a name the configuration lacks returns
\* ConfigMissing and changes nothing: no process, no session, no container,
\* no lock left held, and the service list as before.
C8_ConfigMissing ==
    [][\A t \in Threads :
          ( /\ th[t].pc = "st_lock"
            /\ th'[t].pc # "st_lock"
            /\ th[t].arg \notin Services )
          => /\ th'[t].pc = "done"
             /\ th'[t].res.kind = "ConfigMissing"
             /\ UNCHANGED <<mu, procMu, running, containers, procs, goro,
                            engine, cfgStatus>>
             /\ \A l \in BOOLEAN :
                    GetServicesResult(l)' = GetServicesResult(l)]_vars

\* C8 witness: StartService("x") has returned ConfigMissing while service
\* "a" is running.
C8_Witness ==
    /\ running["a"] # 0
    /\ \E t \in Threads :
        Done(t, "start") /\ th[t].arg = "x"
            /\ th[t].res.kind = "ConfigMissing"

\* C9: a StartService of a local-process service that returns success
\* leaves a session with a live backend registered for the name.
C9_FreshSession ==
    [][\A t \in Threads :
          ( /\ th[t].pc = "st_check"
            /\ th'[t].pc = "done"
            /\ th'[t].res.kind = "ok"
            /\ Driver(th[t].arg) = "process" )
          => /\ running'[th[t].arg] # 0
             /\ procs'[running'[th[t].arg]].alive]_vars

\* C10: a service whose registered backend has crashed is not reported as
\* running.
C10_CrashIsNotRunning ==
    \A n \in Services :
        running[n] # 0 /\ procs[running[n]].crashed
            => GetServicesResult(TRUE)[n] # "running"

\* C11: a CallTool that has written its request and waits for the response
\* returns in the end, whatever the backend does: it does not stay blocked
\* when the backend never responds.
C11_CallReturns ==
    \A t \in Threads : (th[t].pc = "ct_read") ~> (th[t].pc = "done")

\* C12: a StopService that has closed the child's input and waits for the
\* child completes in the end, also when the child ignores the closing of
\* its input and keeps running.
C12_StopCompletes ==
    \A t \in Threads : (th[t].pc = "ss_wait") ~> (th[t].pc # "ss_wait")

\* C13: a caller that is about to take a lock of the Manager never finds it
\* held on behalf of an operation on a different service name.
C13_NoContention ==
    \A t \in Threads :
        /\ ( /\ th[t].pc \in {"st_check", "ss_lock", "ct_lookup"}
             /\ procMu \notin {0, t} )
           => th[procMu].arg = th[t].arg
        /\ ( /\ th[t].pc \in {"st_lock", "rm_lock"}
             /\ mu \notin {0, t} )
           => th[mu].arg = th[t].arg

\* C14: CallTool writes its tools/call request only to a session whose
\* handshake is over: an initAndServe goroutine has sent initialize and
\* notifications/initialized to that child.
C14_HandshakeFirst ==
    [][\A t \in Threads :
          ( /\ th[t].pc = "ct_send"
            /\ th'[t].pc = "ct_read" )
          => \E i \in 1..Len(goro) :
                goro[i].p = th[t].p /\ goro[i].pc = "serve"]_vars

\* C15: with a backend that echoes the arguments of a tools/call as its
\* result, a CallTool that returns a result returns the arguments it was
\* called with.
C15_RoundTrip ==
    [][\A t \in Threads :
          ( /\ th[t].pc = "ct_read"
            /\ th'[t].pc = "done"
            /\ th'[t].res.kind = "result" )
          => EchoResult(th'[t].res.frame) = Arguments(th[t].seq)]_vars

\* C16: for a service whose session has been through the handshake, the
\* tools field of the service listing is the set of tools its backend
\* declares.
C16_ListedTools ==
    \A n \in Services :
        ( /\ running[n] # 0
          /\ \E i \in 1..Len(goro) :
                goro[i].p = running[n] /\ goro[i].pc = "serve" )
        => ListedTools(n) = DeclaredTools(running[n])

\* Caller t's lifecycle call on a name has run alone: since it was issued
\* no other StartService, StopService or RemoveService of that name has
\* been issued or has returned, and none is in progress.
Alone(t) ==
    /\ lastOk[th[t].arg] = "removing"
    /\ \A u \in Threads \ {t} :
          ~ ( /\ th[u].arg = th[t].arg
              /\ th[u].op \in {"start", "stop", "remove"}
              /\ th[u].pc \notin {"idle", "done"} )

C18_StateMismatchNotFatal ==
    \A t \in Threads :
        ( \/ Done(t, "stop") /\ th[t].res.kind = "NotFound"
          \/ Done(t, "call") /\ th[t].res.kind = "NotRunning" )
        => StatusCode(th[t].res) < 500

\* C19: every status a GetServices call has returned is one of stopped,
\* starting, running, failed.
C19_StatusSet ==
    \A t \in Threads :
        Done(t, "list")
            => \A n \in Services :
                  th[t].res.list[n]
                      \in {"stopped", "starting", "running", "failed"}

\* C20: no child process launched by StartService is ended by the context
\* of its starter: a child ends only by crashing or by exiting once its
\* input has been closed, which is what StopService and RemoveService do.
C20_OutlivesStarter ==
    [][\A i \in 1..Len(procs) :
          procs[i].alive /\ ~procs'[i].alive
              => procs'[i].crashed \/ procs[i].stdinClosed]_vars

\* The request documents of session i that are in flight or answered but
\* not yet read: what the child holds and what it has replied to.
Outstanding(i) ==
    procs[i].inbox \cup
    {[id |-> f.id, by |-> f.by, seq |-> f.seq, method |-> f.method] :
        f \in {procs[i].out[k] : k \in 1..Len(procs[i].out)}}

\* C21: within one session no two requests carry the same id: any two
\* different request documents written to a child differ in their "id".
C21_UniqueIds ==
    \A i \in 1..Len(procs) :
        \A r1 \in Outstanding(i) : \A r2 \in Outstanding(i) :
            r1 # r2 => r1.id # r2.id

\* C22: a response frame is delivered to a caller only if it answers a
\* request some caller of that session is waiting on; a frame that answers
\* no pending request is delivered to nobody.
C22_StaleDiscarded ==
    [][\A t \in Threads :
          ( /\ th[t].pc = "ct_read"
            /\ th'[t].pc = "done"
            /\ th'[t].res.kind \in {"result", "MCPError"} )
          => \E u \in Threads :
                /\ th[u].pc = "ct_read"
                /\ th[u].p = th[t].p
                /\ th[u].seq = th'[t].res.frame.seq]_vars

\* C23: no CallTool returns a notification of the backend as the response
\* to its request.
C23_NotificationDiscarded ==
    \A t \in Threads :
        Done(t, "call") /\ th[t].res.kind \in {"result", "MCPError"}
            => th[t].res.frame.method # Notification.method

InitializeUnanswered(p) == \E r \in procs[p].inbox : r.method = "initialize"

\* C25: notifications/initialized is sent, and the handshake left behind,
\* only when the backend has answered the initialize request.
C25_InitializedAfterResponse ==
    [][\A i \in 1..Len(goro) :
          goro[i].pc = "notif" /\ goro'[i].pc = "serve"
              => ~InitializeUnanswered(goro[i].p)]_vars

\* C26: a service whose handshake has run to its end without a response to
\* initialize is not reported as running.
C26_HandshakeFailed ==
    \A i \in 1..Len(goro) :
        ( /\ goro[i].pc = "serve"
          /\ InitializeUnanswered(goro[i].p)
          /\ running[procs[goro[i].p].name] = goro[i].p )
        => GetServicesResult(TRUE)[procs[goro[i].p].name] # "running"

\* C27: a StartService that returns LaunchFailed leaves no session
\* registered for the name, has added no process and no goroutine, and the
\* service is not reported as running.
C27_LaunchFailed ==
    [][\A t \in Threads :
          ( /\ th[t].pc = "st_check"
            /\ th'[t].pc = "done"
            /\ th'[t].res.kind = "LaunchFailed" )
          => /\ running'[th[t].arg] = 0
             /\ procs' = procs
             /\ goro' = goro
             /\ \A l \in BOOLEAN :
                    GetServicesResult(l)'[th[t].arg] # "running"]_vars

\* C27 witness: StartService("a") has returned LaunchFailed, a CallTool("a")
\* after it has returned NotRunning, and "a" is listed as stopped.
C27_Witness ==
    /\ \E t \in Threads :
          Done(t, "start") /\ th[t].arg = "a"
              /\ th[t].res.kind = "LaunchFailed"
    /\ \E t \in Threads :
          Done(t, "call") /\ th[t].arg = "a"
              /\ th[t].res.kind = "NotRunning"
    /\ procs = <<>>
    /\ GetServicesResult(TRUE)["a"] = "stopped"

\* C28: the child of a session that has ended by a crash is reaped and its
\* pipes are closed in the end (Cmd.Wait() does both), without anyone
\* having to ask.
C28_CrashCleanedUp ==
    \A i \in 1..MaxProcs :
        (i <= Len(procs) /\ procs[i].crashed)
            ~> (i <= Len(procs) /\ procs[i].waited)

\* C29: at no time do two tasks read the output stream of one session.
C29_OneReader ==
    \A t \in Threads : \A u \in Threads :
        ( /\ t # u
          /\ th[t].pc = "ct_read"
          /\ th[u].pc = "ct_read" )
        => th[t].p # th[u].p

\* C30: a read that finds complete lines in the pipe parses one line as
\* one frame and delivers it, and drops none of the others.
C30_LineFraming ==
    [][\A t \in Threads :
          ( /\ th[t].pc = "ct_read"
            /\ th'[t].pc = "done"
            /\ procs[th[t].p].out # <<>>
            /\ ~procs[th[t].p].waited )
          => /\ th'[t].res.kind \in {"result", "MCPError"}
             /\ Len(procs'[th[t].p].out) = Len(procs[th[t].p].out) - 1]_vars

\* C31: an unparseable line from the backend fails no pending caller: a caller
\* that reads it does not return a parse error, it keeps waiting for its own
\* response.
C31_UnparseableDiscarded ==
    [][\A t \in Threads :
          ( /\ th[t].pc = "ct_read"
            /\ ~procs[th[t].p].waited
            /\ procs[th[t].p].out = <<Unparseable>>
            /\ th'[t] # th[t] )
          => th'[t].pc = "ct_read"]_vars

\* C32: a tools/call response with an error object makes CallTool return an
\* error carrying it and no result (HTTP 500); one with a result makes it
\* return that result and no error (HTTP 200).
C32_ErrorOrResult ==
    \A t \in Threads :
        ( /\ Done(t, "call")
          /\ th[t].res.kind \in {"result", "MCPError"}
          /\ th[t].res.frame.method = "tools/call" )
        => /\ th[t].res.frame.isErr <=> th[t].res.kind = "MCPError"
           /\ th[t].res.frame.isErr <=> StatusCode(th[t].res) = 500

\* One caller has got the backend's error, the other one a result.
C32_Witness ==
    \E t \in Threads : \E u \in Threads :
        /\ Done(t, "call") /\ Done(u, "call")
        /\ th[t].res.kind = "MCPError" /\ th[t].res.frame.isErr
        /\ th[t].res.frame.method = "tools/call"
        /\ th[u].res.kind = "result" /\ ~th[u].res.frame.isErr
        /\ th[u].res.frame.method = "tools/call"

\* C33: a LocalProcess is launched only for a descriptor with a command, a
\* container only for one without a command and with an engine; without an
\* engine, StartService of a descriptor that has only an image fails with
\* BackendUnavailable and launches nothing.
C33_DriverSelection ==
    /\ \A i \in 1..Len(procs) : Command(procs[i].name) # ""
    /\ \A n \in Services : engine[n] # "none" => (Command(n) = "" /\ client)
    /\ \A t \in Threads :
        ( /\ Done(t, "start")
          /\ th[t].arg \in Services
          /\ Command(th[t].arg) = ""
          /\ ~client )
        => th[t].res.kind = "BackendUnavailable"

\* The value the specification gives binding e: the literal overrides the
\* reference; "" stands for a binding that is left out.
Resolved(e, os) ==
    IF e.Value # "" THEN e.Value
    ELSE IF e.ValueFrom = "env:V" THEN os
    ELSE ""

\* C34: on every path that launches a local process, the backend's environment
\* holds, for each binding, the literal if there is one, else the value of the
\* referenced variable, and holds nothing for a binding that has no literal
\* and whose reference is unresolved.
C34_EnvResolution ==
    (ev.pc = "done" /\ ev.driver \in {"process", "fallback"})
    => ev.backend = {[k |-> k, v |-> Resolved(ev.Env[k], ev.os)] :
                        k \in {j \in DOMAIN ev.Env :
                                 Resolved(ev.Env[j], ev.os) # ""}}

\* C35: nothing is restarted automatically: a backend of a service, process
\* or container, comes to run only in a step of an explicit StartService
\* call for that service.
C35_NoAutomaticRestart ==
    [][\A n \in Services :
          ( \/ engine[n] # "running" /\ engine'[n] = "running"
            \/ LiveChildren(n)' \ LiveChildren(n) # {} )
          => \E t \in Threads : /\ th[t].op = "start"
                                /\ th[t].arg = n
                                /\ th[t].pc = "st_check"
                                /\ th'[t].pc = "done"]_vars

\* C36: the descriptors are read-only to the Manager: no step of
\* StartService, StopService, RemoveService, GetServices or CallTool changes
\* the shared configuration.
C36_ConfigReadOnly == [][cfgStatus' = cfgStatus]_vars

\* C37: a StartProcess that has launched its backend goes on with the
\* handshake: the read lock sendRequest asks for can be obtained while
\* StartProcess is in progress.
C37_HandshakeGetsLock ==
    \A t \in Threads :
        (gw.th[t].op = "StartProcess" /\ gw.th[t].pc = "sendRequest")
        => ENABLED sendRequest(t)

====
